---- MODULE Spec2Model ----
(***************************************************************************)
(* Basis-Zero prediction market: the constant-product AMM for binary      *)
(* YES/NO shares and the two persistence wrappers around it               *)
(*   - backend  src/backend/src/amm/db-pool-manager.ts  (rows only)       *)
(*   - frontend src/frontend/lib/amm/persistent-pool-manager.ts           *)
(*     (process-wide Map `inMemoryPools` in front of the same rows)       *)
(* Every request handler is an async function; it is modelled as a        *)
(* process that takes one step per `await` that really suspends, so that  *)
(* other requests interleave exactly where the event loop lets them.      *)
(***************************************************************************)
EXTENDS Integers, FiniteSets, Sequences, TLC

(***************************************************************************)
(* Bounds of the model.                                                    *)
(***************************************************************************)
MaxLiquidity == 2       \* initialLiquidity of a created market: 2..MaxLiquidity
MaxAmount    == 1       \* the valid trade amount of a request
MaxRequests  == 2       \* requests accepted over a run
MaxQuoteLiquidity == 4  \* liquidity of the pools that are only quoted
MaxQuoteAmount    == 5  \* amounts of the quotes on those pools

Markets  == {"m1", "m2"}
Users    == {"u1"}
Procs    == {"r1", "r2"}          \* request slots served concurrently
Outcomes == {"YES", "NO"}

Liquidities == 2..MaxLiquidity

\* raw `amount` of a request body / query string: a JSON number or a string
ValidAmounts == [str : {TRUE}, val : {MaxAmount}]
AmountInputs ==
    ValidAmounts \cup [str : {TRUE}, val : (-1)..0] \cup {[str |-> FALSE, val |-> 0]}

\* raw `initialLiquidity` of a creation request
ValidLiquidities == [str : {TRUE}, val : Liquidities]
LiquidityInputs ==
    ValidLiquidities \cup [str : {TRUE}, val : (-1)..0] \cup {[str |-> FALSE, val |-> 0]}

(***************************************************************************)
(* PoolState and the core engine (mint-swap.ts / pool.ts).                 *)
(***************************************************************************)
MinReserve == 1

NoPool == [yes |-> 0, no |-> 0, k |-> 0, tc |-> 0]

Chosen(pool, o) == IF o = "YES" THEN pool.yes ELSE pool.no
Other(pool, o)  == IF o = "YES" THEN pool.no ELSE pool.yes

\* createPool(config): symmetric seeding
createPool(L) ==
    IF L <= 0
    THEN [ok |-> FALSE, err |-> "InvalidArgument", pool |-> NoPool]
    ELSE [ok |-> TRUE, err |-> "none",
          pool |-> [yes |-> L, no |-> L, k |-> L * L, tc |-> 2 * L]]

\* quoteBet as it would be if the remaining reserve were rounded up
quoteBetRoundUp(pool, x, o) ==
    IF x <= 0
    THEN [ok |-> FALSE, err |-> "InvalidArgument", shares |-> 0]
    ELSE LET other2  == Other(pool, o) + x
             chosen2 == (pool.k + other2 - 1) \div other2
             out     == Chosen(pool, o) - chosen2
         IN IF out > 0 /\ out < Chosen(pool, o)
            THEN [ok |-> TRUE, err |-> "none", shares |-> out]
            ELSE [ok |-> FALSE, err |-> "InsufficientLiquidity", shares |-> 0]

\* quoteBet(pool, usdcIn, outcome): shares leaving the chosen side
quoteBet(pool, x, o) ==
    IF x <= 0
    THEN [ok |-> FALSE, err |-> "InvalidArgument", shares |-> 0]
    ELSE LET other2  == Other(pool, o) + x
             chosen2 == pool.k \div other2
             out     == Chosen(pool, o) - chosen2
         IN IF out > 0 /\ out < Chosen(pool, o)
            THEN [ok |-> TRUE, err |-> "none", shares |-> out]
            ELSE [ok |-> FALSE, err |-> "InsufficientLiquidity", shares |-> 0]

\* placeBet(pool, usdcIn, outcome): quote, then commit into a new pool value
placeBet(pool, x, o) ==
    LET q == quoteBet(pool, x, o)
    IN IF ~q.ok
       THEN [ok |-> FALSE, err |-> q.err, shares |-> 0, pool |-> pool]
       ELSE LET y2 == IF o = "YES" THEN pool.yes - q.shares ELSE pool.yes + x
                n2 == IF o = "YES" THEN pool.no + x ELSE pool.no - q.shares
            IN [ok |-> TRUE, err |-> "none", shares |-> q.shares,
                pool |-> [yes |-> y2, no |-> n2, k |-> y2 * n2, tc |-> pool.tc + x]]

\* sellPosition(pool, sharesIn, outcome): the inverse trade
sellPosition(pool, s, o) ==
    IF s <= 0
    THEN [ok |-> FALSE, err |-> "InvalidArgument", usdcOut |-> 0, pool |-> pool]
    ELSE LET chosen2 == Chosen(pool, o) + s
             other2  == pool.k \div chosen2
             out     == Other(pool, o) - other2
         IN IF other2 < MinReserve
            THEN [ok |-> FALSE, err |-> "InsufficientLiquidity", usdcOut |-> 0, pool |-> pool]
            ELSE LET y2 == IF o = "YES" THEN chosen2 ELSE other2
                     n2 == IF o = "YES" THEN other2 ELSE chosen2
                 IN [ok |-> TRUE, err |-> "none", usdcOut |-> out,
                     pool |-> [yes |-> y2, no |-> n2, k |-> y2 * n2, tc |-> pool.tc - out]]

(***************************************************************************)
(* Rows of the durable store (amm-repository.ts over Supabase).            *)
(***************************************************************************)
NoRow == [yes |-> 0, no |-> 0, k |-> 0, status |-> "ABSENT"]
NoPos == -1

\* marketRowToPoolState(row)
marketRowToPoolState(row) ==
    [yes |-> row.yes, no |-> row.no, k |-> row.k, tc |-> row.yes + row.no]

\* the PoolState literal built from a row in db-pool-manager.ts
RowToPoolDB(row) == [yes |-> row.yes, no |-> row.no, k |-> row.k, tc |-> 0]

\* the three columns db.updateMarketReserves is called with
ReservesStaleK(old, np) == [yes |-> np.yes, no |-> np.no, k |-> old.k]
ReservesOf(old, np) == [yes |-> np.yes, no |-> np.no, k |-> np.k]

\* updateMarketReserves(marketId, yes, no, k): UPDATE ... WHERE market_id = m
updateMarketReserves(row, r) ==
    IF row.status = "ABSENT" THEN row
    ELSE [row EXCEPT !.yes = r.yes, !.no = r.no, !.k = r.k]

\* `!amount` of the route handlers
Falsy(raw) == ~raw.str /\ raw.val = 0

VARIABLES
    markets,        \* durable table markets: market id -> row
    positions,      \* durable table positions: (market, user, outcome) -> shares | NoPos
    inMemoryPools,  \* the frontend's Map: market id -> [present, pool]
    memPositions,   \* inMemoryPools[m].positions: (market, user, outcome) -> shares
    confirmed,      \* history: the cached pool of m was confirmed by the store before it was cached
    pc,             \* position of each request
    loc,            \* locals of each request
    nreq,           \* requests accepted so far
    workload,       \* what clients send in this run: amounts, liquidities, market ids
    vault,          \* the ArcYieldVault contract: storage, block time, last transaction
    escrow,         \* the SessionEscrow contract: storage, block time, last transaction
    yellow,         \* YellowSessionService: its clock and its sessions Map and states Map
    resolver,       \* MarketResolver: its markets Map, the oracle's price, the requests
    claims          \* claimWinningsDB: the rows it reads and writes, and the requests

\* the state outside the AMM and its two servers
elsewhere == <<vault, escrow, yellow, resolver, claims>>

vars == <<markets, positions, inMemoryPools, memPositions, confirmed, pc, loc, nreq, workload,
          elsewhere>>

\* a component that takes no part in a run
Unused == "unused"

PosKeys == Markets \X Users \X Outcomes

Blank ==
    [op |-> "none", m |-> "m1", u |-> "u1", amt |-> 0, out |-> "YES",
     has |-> FALSE, pool |-> NoPool, np |-> NoPool, shares |-> 0, usdc |-> 0,
     cur |-> 0, res |-> "none", wfail |-> FALSE, late |-> FALSE]

\* the row createMarketDB / createMarketPersistent inserts for liquidity L
NewRow(L) == [yes |-> L, no |-> L, k |-> L * L, status |-> "ACTIVE"]

\* A server process starts with an empty Map; the durable store holds what
\* earlier processes left: no row, or a market as it was created.  Markets
\* that no client of the run addresses have no row.
StartAMM(w) ==
    /\ workload = w
    /\ markets \in
          {f \in [Markets -> {NoRow} \cup {NewRow(raw.val) : raw \in {x \in w.liquidities : x.val > 0}}] :
              \A m \in Markets \ w.markets : f[m] = NoRow}
    /\ positions = [key \in PosKeys |-> NoPos]
    /\ inMemoryPools = [m \in Markets |-> [present |-> FALSE, pool |-> NoPool]]
    /\ memPositions = [key \in PosKeys |-> 0]
    /\ confirmed = [m \in Markets |-> TRUE]
    /\ pc = [p \in Procs |-> "idle"]
    /\ loc = [p \in Procs |-> Blank]
    /\ nreq = 0

Start(w) ==
    /\ StartAMM(w)
    /\ vault = Unused
    /\ escrow = Unused
    /\ yellow = Unused
    /\ resolver = Unused
    /\ claims = Unused

Init ==
    Start([amounts |-> ValidAmounts, liquidities |-> ValidLiquidities, markets |-> {"m1"}])

\* the same start, with clients that also send zero and negative amounts
InitAnyAmount ==
    Start([amounts |-> AmountInputs, liquidities |-> ValidLiquidities, markets |-> {"m1"}])

(***************************************************************************)
(* Helpers on the request state.                                           *)
(***************************************************************************)
\* what is left of a request once its handler has returned or thrown
Response(l, r) ==
    [Blank EXCEPT !.op = l.op, !.m = l.m, !.amt = l.amt, !.out = l.out,
                  !.has = l.has, !.shares = l.shares, !.usdc = l.usdc,
                  !.res = r, !.wfail = l.wfail, !.late = l.late]

Finish(p, l, r) ==
    /\ pc' = [pc EXCEPT ![p] = "done"]
    /\ loc' = [loc EXCEPT ![p] = Response(l, r)]

Accept(p) ==
    /\ pc[p] = "idle"
    /\ nreq < MaxRequests
    /\ nreq' = nreq + 1
    /\ UNCHANGED <<workload, elsewhere>>

\* `late` records that the market was already resolved when the request came in
Request(op, m, u, raw, o) ==
    [Blank EXCEPT !.op = op, !.m = m, !.u = u, !.amt = raw.val, !.out = o,
                  !.late = (markets[m].status = "RESOLVED")]

\* `positions: new Map()` as it would be if the positions were one Map for
\* all markets
ResetAllPositions(m) ==
    [key \in PosKeys |-> 0]

\* `positions: new Map()` of a new Map entry for market m
ResetPositions(m) ==
    [key \in PosKeys |-> IF key[1] = m THEN 0 ELSE memPositions[key]]

(***************************************************************************)
(* Frontend: persistent-pool-manager.ts behind the Next.js routes.         *)
(***************************************************************************)
\* route guard, then the synchronous head of getPoolState: the Map lookup
EnterPersistent(p, op, m, u, raw, o) ==
    /\ Accept(p)
    /\ UNCHANGED <<markets, positions, inMemoryPools, memPositions, confirmed>>
    /\ LET l == Request(op, m, u, raw, o)
       IN IF Falsy(raw)
          THEN Finish(p, l, "BadRequest")
          ELSE IF inMemoryPools[m].present
               THEN /\ pc' = [pc EXCEPT ![p] = "havePool"]
                    /\ loc' = [loc EXCEPT ![p] =
                                 [l EXCEPT !.has = TRUE, !.pool = inMemoryPools[m].pool]]
               ELSE /\ pc' = [pc EXCEPT ![p] = "dbRead"]
                    /\ loc' = [loc EXCEPT ![p] = l]

BetRoute(p) ==
    \E m \in workload.markets, u \in Users, raw \in workload.amounts, o \in Outcomes :
        EnterPersistent(p, "betP", m, u, raw, o)

SellRoute(p) ==
    \E m \in workload.markets, u \in Users, raw \in workload.amounts, o \in Outcomes :
        EnterPersistent(p, "sellP", m, u, raw, o)

QuoteRoute(p) ==
    \E m \in workload.markets, u \in Users, raw \in workload.amounts, o \in Outcomes :
        EnterPersistent(p, "quoteP", m, u, raw, o)

\* getPoolState: `await getMarket(marketId)` answers (or throws and is caught)
GetPoolState_Read(p) ==
    /\ pc[p] = "dbRead"
    /\ UNCHANGED <<markets, positions, inMemoryPools, memPositions, confirmed, nreq, workload, elsewhere>>
    /\ \/ /\ pc' = [pc EXCEPT ![p] = "havePool"]      \* store failure, caught: null
          /\ loc' = [loc EXCEPT ![p].has = FALSE]
       \/ /\ markets[loc[p].m].status = "ABSENT"        \* no row: null
          /\ pc' = [pc EXCEPT ![p] = "havePool"]
          /\ loc' = [loc EXCEPT ![p].has = FALSE]
       \/ /\ markets[loc[p].m].status # "ABSENT"
          /\ pc' = [pc EXCEPT ![p] = "gotRow"]
          /\ loc' = [loc EXCEPT ![p].pool = marketRowToPoolState(markets[loc[p].m])]

\* getPoolState as it would be if the loaded pool were returned without
\* being put in the Map
GetPoolState_Uncached(p) ==
    /\ pc[p] = "gotRow"
    /\ pc' = [pc EXCEPT ![p] = "havePool"]
    /\ loc' = [loc EXCEPT ![p].has = TRUE]
    /\ UNCHANGED <<markets, positions, inMemoryPools, memPositions, confirmed, nreq, workload, elsewhere>>

\* getPoolState: the continuation caches the loaded pool and returns it
GetPoolState_Cache(p) ==
    /\ pc[p] = "gotRow"
    /\ inMemoryPools' = [inMemoryPools EXCEPT ![loc[p].m] =
                            [present |-> TRUE, pool |-> loc[p].pool]]
    /\ memPositions' = ResetPositions(loc[p].m)
    /\ confirmed' = [confirmed EXCEPT ![loc[p].m] = TRUE]
    /\ pc' = [pc EXCEPT ![p] = "havePool"]
    /\ loc' = [loc EXCEPT ![p].has = TRUE]
    /\ UNCHANGED <<markets, positions, nreq, workload, elsewhere>>

\* updatePoolState, synchronous head: the Map entry is replaced first
UpdatePoolState_Memory(m, np) ==
    /\ inMemoryPools' = IF inMemoryPools[m].present
                        THEN [inMemoryPools EXCEPT ![m].pool = np]
                        ELSE inMemoryPools
    /\ confirmed' = IF inMemoryPools[m].present
                    THEN [confirmed EXCEPT ![m] = FALSE]
                    ELSE confirmed

\* placeBetPersistent after `await getPoolState`: core, then updatePoolState
PlaceBetPersistent_Execute(p) ==
    /\ pc[p] = "havePool"
    /\ loc[p].op = "betP"
    /\ UNCHANGED <<markets, positions, memPositions, nreq, workload, elsewhere>>
    /\ IF ~loc[p].has
       THEN Finish(p, loc[p], "NotFound") /\ UNCHANGED <<inMemoryPools, confirmed>>
       ELSE LET r == placeBet(loc[p].pool, loc[p].amt, loc[p].out)
            IN IF ~r.ok
               THEN Finish(p, loc[p], r.err) /\ UNCHANGED <<inMemoryPools, confirmed>>
               ELSE /\ UpdatePoolState_Memory(loc[p].m, r.pool)
                    /\ pc' = [pc EXCEPT ![p] = "dbWrite"]
                    /\ loc' = [loc EXCEPT ![p].np = r.pool, ![p].shares = r.shares]

\* sellPositionPersistent after `await getPoolState`
SellPositionPersistent_Execute(p) ==
    /\ pc[p] = "havePool"
    /\ loc[p].op = "sellP"
    /\ UNCHANGED <<markets, positions, memPositions, nreq, workload, elsewhere>>
    /\ IF ~loc[p].has
       THEN Finish(p, loc[p], "NotFound") /\ UNCHANGED <<inMemoryPools, confirmed>>
       ELSE LET r == sellPosition(loc[p].pool, loc[p].amt, loc[p].out)
            IN IF ~r.ok
               THEN Finish(p, loc[p], r.err) /\ UNCHANGED <<inMemoryPools, confirmed>>
               ELSE /\ UpdatePoolState_Memory(loc[p].m, r.pool)
                    /\ pc' = [pc EXCEPT ![p] = "dbWrite"]
                    /\ loc' = [loc EXCEPT ![p].np = r.pool, ![p].usdc = r.usdcOut]

\* getQuotePersistent after `await getPoolState`
GetQuotePersistent_Execute(p) ==
    /\ pc[p] = "havePool"
    /\ loc[p].op = "quoteP"
    /\ UNCHANGED <<markets, positions, inMemoryPools, memPositions, confirmed, nreq, workload, elsewhere>>
    /\ IF ~loc[p].has
       THEN Finish(p, loc[p], "NotFound")
       ELSE LET q == quoteBet(loc[p].pool, loc[p].amt, loc[p].out)
            IN IF ~q.ok
               THEN Finish(p, loc[p], q.err)
               ELSE Finish(p, [loc[p] EXCEPT !.shares = q.shares], "ok")

\* updateUserPosition, synchronous head: the in-memory position
UpdateUserPosition_Memory(m, u, o, shares) ==
    IF inMemoryPools[m].present
    THEN [memPositions EXCEPT ![<<m, u, o>>] = @ + shares]
    ELSE memPositions

\* updatePoolState: `await updateMarketReserves` answers; an error is logged
\* and swallowed, and the caller goes on
UpdatePoolState_Write(p) ==
    /\ pc[p] = "dbWrite"
    /\ UNCHANGED <<positions, inMemoryPools, nreq, workload, elsewhere>>
    /\ LET m == loc[p].m
           cont(l) ==
               IF l.op = "betP"
               THEN /\ memPositions' = UpdateUserPosition_Memory(m, l.u, l.out, l.shares)
                    /\ pc' = [pc EXCEPT ![p] = "posRead"]
                    /\ loc' = [loc EXCEPT ![p] = l]
               ELSE /\ UNCHANGED memPositions
                    /\ Finish(p, l, "ok")
       IN \/ /\ markets' = [markets EXCEPT ![m] =
                               updateMarketReserves(@, ReservesOf(loc[p].pool, loc[p].np))]
             /\ confirmed' = IF /\ markets[m].status # "ABSENT"
                                /\ inMemoryPools[m].pool = loc[p].np
                             THEN [confirmed EXCEPT ![m] = TRUE]
                             ELSE confirmed
             /\ cont(loc[p])
          \/ /\ UNCHANGED <<markets, confirmed>>
             /\ cont([loc[p] EXCEPT !.wfail = TRUE])

\* updateUserPosition: `await dbGetPosition` answers
UpdateUserPosition_Read(p) ==
    /\ pc[p] = "posRead"
    /\ loc[p].op = "betP"
    /\ UNCHANGED <<markets, positions, inMemoryPools, memPositions, confirmed, nreq, workload, elsewhere>>
    /\ \/ LET row == positions[<<loc[p].m, loc[p].u, loc[p].out>>]
          IN /\ pc' = [pc EXCEPT ![p] = "posWrite"]
             /\ loc' = [loc EXCEPT ![p].cur = IF row = NoPos THEN 0 ELSE row]
       \/ Finish(p, loc[p], "ok")                       \* error caught and logged

\* updateUserPosition: `await upsertPosition` answers
UpdateUserPosition_Write(p) ==
    /\ pc[p] = "posWrite"
    /\ loc[p].op = "betP"
    /\ UNCHANGED <<markets, inMemoryPools, memPositions, confirmed, nreq, workload, elsewhere>>
    /\ \/ /\ positions' = [positions EXCEPT ![<<loc[p].m, loc[p].u, loc[p].out>>] =
                              loc[p].cur + loc[p].shares]
          /\ Finish(p, loc[p], "ok")
       \/ /\ UNCHANGED positions
          /\ Finish(p, loc[p], "ok")                    \* error caught and logged

\* POST /api/amm/markets -> createMarketPersistent, up to `await dbCreateMarket`
CreateMarketRoute(p) ==
    \E m \in workload.markets, raw \in workload.liquidities :
        /\ Accept(p)
        /\ UNCHANGED <<markets, positions, inMemoryPools, memPositions, confirmed>>
        /\ LET l == [Blank EXCEPT !.op = "createP", !.m = m, !.amt = raw.val]
               c == createPool(raw.val)
           IN IF Falsy(raw)
              THEN Finish(p, l, "BadRequest")
              ELSE IF ~c.ok
              THEN Finish(p, l, c.err)
              ELSE /\ pc' = [pc EXCEPT ![p] = "insertP"]
                   /\ loc' = [loc EXCEPT ![p] = [l EXCEPT !.np = c.pool]]

\* createMarketPersistent: the insert answers (an error is logged and
\* swallowed); the Map entry is set in either case
CreateMarketPersistent_Save(p) ==
    /\ pc[p] = "insertP"
    /\ UNCHANGED <<positions, nreq, workload, elsewhere>>
    /\ LET m == loc[p].m
           np == loc[p].np
           cache(l, ok) ==
               /\ inMemoryPools' = [inMemoryPools EXCEPT ![m] =
                                       [present |-> TRUE, pool |-> np]]
               /\ memPositions' = ResetPositions(m)
               /\ confirmed' = [confirmed EXCEPT ![m] = ok]
               /\ Finish(p, l, "ok")
       IN \/ /\ markets[m].status = "ABSENT"
             /\ markets' = [markets EXCEPT ![m] =
                               [yes |-> np.yes, no |-> np.no, k |-> np.k, status |-> "ACTIVE"]]
             /\ cache(loc[p], TRUE)
          \/ /\ UNCHANGED markets                       \* store failure or duplicate id
             /\ cache([loc[p] EXCEPT !.wfail = TRUE], FALSE)

(***************************************************************************)
(* Backend: db-pool-manager.ts behind the express ammRouter.               *)
(***************************************************************************)
\* route guard of /bet, /sell, /quote; the handler then awaits db.getMarket
EnterDB(p, op, m, u, raw, o) ==
    /\ Accept(p)
    /\ UNCHANGED <<markets, positions, inMemoryPools, memPositions, confirmed>>
    /\ LET l == Request(op, m, u, raw, o)
       IN IF Falsy(raw)
          THEN Finish(p, l, "BadRequest")
          ELSE /\ pc' = [pc EXCEPT ![p] = "getMarket"]
               /\ loc' = [loc EXCEPT ![p] = l]

BetRouteDB(p) ==
    \E m \in workload.markets, u \in Users, raw \in workload.amounts, o \in Outcomes :
        EnterDB(p, "betDB", m, u, raw, o)

SellRouteDB(p) ==
    \E m \in workload.markets, u \in Users, raw \in workload.amounts, o \in Outcomes :
        EnterDB(p, "sellDB", m, u, raw, o)

QuoteRouteDB(p) ==
    \E m \in workload.markets, u \in Users, raw \in workload.amounts, o \in Outcomes :
        EnterDB(p, "quoteDB", m, u, raw, o)

\* the row checks every trading handler makes after `await db.getMarket`
RowError(row) ==
    IF row.status = "ABSENT" THEN "NotFound"
    ELSE IF row.status # "ACTIVE" THEN "MarketNotActive"
    ELSE "none"

\* placeBetDB as it would be if a failed placeBet were not propagated
PlaceBetDB_Read_Unchecked(p) ==
    /\ pc[p] = "getMarket"
    /\ loc[p].op = "betDB"
    /\ UNCHANGED <<markets, positions, inMemoryPools, memPositions, confirmed, nreq, workload, elsewhere>>
    /\ \/ Finish(p, loc[p], "StorageError")
       \/ LET row == markets[loc[p].m]
              pool == RowToPoolDB(row)
              r == placeBet(pool, loc[p].amt, loc[p].out)
          IN IF RowError(row) # "none" THEN Finish(p, loc[p], RowError(row))
             ELSE /\ pc' = [pc EXCEPT ![p] = "update"]
                  /\ loc' = [loc EXCEPT ![p] = [@ EXCEPT !.has = TRUE, !.pool = pool,
                                                  !.np = r.pool, !.shares = r.shares]]

\* placeBetDB: db.getMarket answers; row checks; placeBet on the row's pool
PlaceBetDB_Read(p) ==
    /\ pc[p] = "getMarket"
    /\ loc[p].op = "betDB"
    /\ UNCHANGED <<markets, positions, inMemoryPools, memPositions, confirmed, nreq, workload, elsewhere>>
    /\ \/ Finish(p, loc[p], "StorageError")
       \/ LET row == markets[loc[p].m]
              pool == RowToPoolDB(row)
              r == placeBet(pool, loc[p].amt, loc[p].out)
          IN IF RowError(row) # "none" THEN Finish(p, loc[p], RowError(row))
             ELSE IF ~r.ok THEN Finish(p, [loc[p] EXCEPT !.has = TRUE, !.pool = pool], r.err)
             ELSE /\ pc' = [pc EXCEPT ![p] = "update"]
                  /\ loc' = [loc EXCEPT ![p] = [@ EXCEPT !.has = TRUE, !.pool = pool,
                                                  !.np = r.pool, !.shares = r.shares]]

\* placeBetDB: `await db.updateMarketReserves` answers
PlaceBetDB_Update(p) ==
    /\ pc[p] = "update"
    /\ loc[p].op = "betDB"
    /\ UNCHANGED <<positions, inMemoryPools, memPositions, confirmed, nreq, workload, elsewhere>>
    /\ \/ /\ UNCHANGED markets
          /\ Finish(p, [loc[p] EXCEPT !.wfail = TRUE], "StorageError")
       \/ /\ markets' = [markets EXCEPT ![loc[p].m] =
                            updateMarketReserves(@, ReservesOf(loc[p].pool, loc[p].np))]
          /\ pc' = [pc EXCEPT ![p] = "posRead"]
          /\ UNCHANGED loc

\* placeBetDB: `await db.getPosition` answers
PlaceBetDB_GetPosition(p) ==
    /\ pc[p] = "posRead"
    /\ loc[p].op = "betDB"
    /\ UNCHANGED <<markets, positions, inMemoryPools, memPositions, confirmed, nreq, workload, elsewhere>>
    /\ \/ Finish(p, loc[p], "StorageError")
       \/ LET row == positions[<<loc[p].m, loc[p].u, loc[p].out>>]
          IN /\ pc' = [pc EXCEPT ![p] = "posWrite"]
             /\ loc' = [loc EXCEPT ![p].cur = IF row = NoPos THEN 0 ELSE row]

\* placeBetDB: `await db.upsertPosition` answers
PlaceBetDB_Upsert(p) ==
    /\ pc[p] = "posWrite"
    /\ loc[p].op = "betDB"
    /\ UNCHANGED <<markets, inMemoryPools, memPositions, confirmed, nreq, workload, elsewhere>>
    /\ \/ /\ UNCHANGED positions
          /\ Finish(p, loc[p], "StorageError")
       \/ /\ positions' = [positions EXCEPT ![<<loc[p].m, loc[p].u, loc[p].out>>] =
                              loc[p].cur + loc[p].shares]
          /\ Finish(p, loc[p], "ok")

\* sellPositionDB: db.getMarket answers; row checks
SellPositionDB_Read(p) ==
    /\ pc[p] = "getMarket"
    /\ loc[p].op = "sellDB"
    /\ UNCHANGED <<markets, positions, inMemoryPools, memPositions, confirmed, nreq, workload, elsewhere>>
    /\ \/ Finish(p, loc[p], "StorageError")
       \/ LET row == markets[loc[p].m]
          IN IF RowError(row) # "none" THEN Finish(p, loc[p], RowError(row))
             ELSE /\ pc' = [pc EXCEPT ![p] = "getPos"]
                  /\ loc' = [loc EXCEPT ![p] = [@ EXCEPT !.has = TRUE,
                                                  !.pool = RowToPoolDB(row)]]

\* sellPositionDB: db.getPosition answers; share check; sellPosition
SellPositionDB_GetPosition(p) ==
    /\ pc[p] = "getPos"
    /\ loc[p].op = "sellDB"
    /\ UNCHANGED <<markets, positions, inMemoryPools, memPositions, confirmed, nreq, workload, elsewhere>>
    /\ \/ Finish(p, loc[p], "StorageError")
       \/ LET row == positions[<<loc[p].m, loc[p].u, loc[p].out>>]
              r == sellPosition(loc[p].pool, loc[p].amt, loc[p].out)
          IN IF row = NoPos THEN Finish(p, loc[p], "NoPosition")
             ELSE IF row < loc[p].amt THEN Finish(p, loc[p], "InsufficientShares")
             ELSE IF ~r.ok THEN Finish(p, loc[p], r.err)
             ELSE /\ pc' = [pc EXCEPT ![p] = "update"]
                  /\ loc' = [loc EXCEPT ![p] = [@ EXCEPT !.cur = row, !.np = r.pool,
                                                  !.usdc = r.usdcOut]]

\* sellPositionDB: `await db.updateMarketReserves` answers
SellPositionDB_Update(p) ==
    /\ pc[p] = "update"
    /\ loc[p].op = "sellDB"
    /\ UNCHANGED <<positions, inMemoryPools, memPositions, confirmed, nreq, workload, elsewhere>>
    /\ \/ /\ UNCHANGED markets
          /\ Finish(p, [loc[p] EXCEPT !.wfail = TRUE], "StorageError")
       \/ /\ markets' = [markets EXCEPT ![loc[p].m] =
                            updateMarketReserves(@, ReservesOf(loc[p].pool, loc[p].np))]
          /\ pc' = [pc EXCEPT ![p] = "posWrite"]
          /\ UNCHANGED loc

\* sellPositionDB: `await db.upsertPosition` answers
SellPositionDB_Upsert(p) ==
    /\ pc[p] = "posWrite"
    /\ loc[p].op = "sellDB"
    /\ UNCHANGED <<markets, inMemoryPools, memPositions, confirmed, nreq, workload, elsewhere>>
    /\ \/ /\ UNCHANGED positions
          /\ Finish(p, loc[p], "StorageError")
       \/ /\ positions' = [positions EXCEPT ![<<loc[p].m, loc[p].u, loc[p].out>>] =
                              loc[p].cur - loc[p].amt]
          /\ Finish(p, loc[p], "ok")

\* quoteBetDB: db.getMarket answers; null unless the row is ACTIVE
QuoteBetDB_Read(p) ==
    /\ pc[p] = "getMarket"
    /\ loc[p].op = "quoteDB"
    /\ UNCHANGED <<markets, positions, inMemoryPools, memPositions, confirmed, nreq, workload, elsewhere>>
    /\ \/ Finish(p, loc[p], "StorageError")
       \/ LET row == markets[loc[p].m]
              pool == RowToPoolDB(row)
              q == quoteBet(pool, loc[p].amt, loc[p].out)
          IN IF row.status # "ACTIVE" THEN Finish(p, loc[p], "NotFound")
             ELSE IF ~q.ok THEN Finish(p, [loc[p] EXCEPT !.has = TRUE, !.pool = pool], q.err)
             ELSE Finish(p, [loc[p] EXCEPT !.has = TRUE, !.pool = pool,
                                           !.shares = q.shares], "ok")

\* POST /create -> createMarketDB, up to `await db.createMarket`
CreateRouteDB(p) ==
    \E m \in workload.markets, raw \in workload.liquidities :
        /\ Accept(p)
        /\ UNCHANGED <<markets, positions, inMemoryPools, memPositions, confirmed>>
        /\ LET l == [Blank EXCEPT !.op = "createDB", !.m = m, !.amt = raw.val]
           IN IF Falsy(raw)
              THEN Finish(p, l, "BadRequest")
              ELSE /\ pc' = [pc EXCEPT ![p] = "insertDB"]
                   /\ loc' = [loc EXCEPT ![p] =
                                [l EXCEPT !.np = RowToPoolDB(NewRow(raw.val))]]

\* createMarketDB: the insert answers
CreateMarketDB_Insert(p) ==
    /\ pc[p] = "insertDB"
    /\ UNCHANGED <<positions, inMemoryPools, memPositions, confirmed, nreq, workload, elsewhere>>
    /\ \/ /\ UNCHANGED markets                          \* store failure or duplicate id
          /\ Finish(p, [loc[p] EXCEPT !.wfail = TRUE], "StorageError")
       \/ /\ markets[loc[p].m].status = "ABSENT"
          /\ markets' = [markets EXCEPT ![loc[p].m] = NewRow(loc[p].amt)]
          /\ Finish(p, loc[p], "ok")

\* resolveMarketDB is entered
ResolveRouteDB(p) ==
    \E m \in workload.markets :
        /\ Accept(p)
        /\ UNCHANGED <<markets, positions, inMemoryPools, memPositions, confirmed>>
        /\ pc' = [pc EXCEPT ![p] = "getMarket"]
        /\ loc' = [loc EXCEPT ![p] = [Blank EXCEPT !.op = "resolveDB", !.m = m]]

\* resolveMarketDB: db.getMarket answers; row checks
ResolveMarketDB_Read(p) ==
    /\ pc[p] = "getMarket"
    /\ loc[p].op = "resolveDB"
    /\ UNCHANGED <<markets, positions, inMemoryPools, memPositions, confirmed, nreq, workload, elsewhere>>
    /\ \/ Finish(p, loc[p], "StorageError")
       \/ LET row == markets[loc[p].m]
          IN IF RowError(row) # "none" THEN Finish(p, loc[p], RowError(row))
             ELSE /\ pc' = [pc EXCEPT ![p] = "resolve"]
                  /\ UNCHANGED loc

\* resolveMarketDB: `await db.resolveMarket` answers
ResolveMarketDB_Write(p) ==
    /\ pc[p] = "resolve"
    /\ UNCHANGED <<positions, inMemoryPools, memPositions, confirmed, nreq, workload, elsewhere>>
    /\ \/ /\ UNCHANGED markets
          /\ Finish(p, [loc[p] EXCEPT !.wfail = TRUE], "StorageError")
       \/ /\ markets' = [markets EXCEPT ![loc[p].m].status =
                            IF @ = "ABSENT" THEN @ ELSE "RESOLVED"]
          /\ Finish(p, loc[p], "ok")

\* the response is sent; the slot is free for the next request
Return(p) ==
    /\ pc[p] = "done"
    /\ pc' = [pc EXCEPT ![p] = "idle"]
    /\ loc' = [loc EXCEPT ![p] = Blank]
    /\ UNCHANGED <<markets, positions, inMemoryPools, memPositions, confirmed, nreq, workload, elsewhere>>

Next ==
    \E p \in Procs :
        \/ BetRoute(p)
        \/ SellRoute(p)
        \/ QuoteRoute(p)
        \/ GetPoolState_Read(p)
        \/ GetPoolState_Cache(p)
        \/ PlaceBetPersistent_Execute(p)
        \/ SellPositionPersistent_Execute(p)
        \/ GetQuotePersistent_Execute(p)
        \/ UpdatePoolState_Write(p)
        \/ UpdateUserPosition_Read(p)
        \/ UpdateUserPosition_Write(p)
        \/ CreateMarketRoute(p)
        \/ CreateMarketPersistent_Save(p)
        \/ BetRouteDB(p)
        \/ SellRouteDB(p)
        \/ QuoteRouteDB(p)
        \/ PlaceBetDB_Read(p)
        \/ PlaceBetDB_Update(p)
        \/ PlaceBetDB_GetPosition(p)
        \/ PlaceBetDB_Upsert(p)
        \/ SellPositionDB_Read(p)
        \/ SellPositionDB_GetPosition(p)
        \/ SellPositionDB_Update(p)
        \/ SellPositionDB_Upsert(p)
        \/ QuoteBetDB_Read(p)
        \/ CreateRouteDB(p)
        \/ CreateMarketDB_Insert(p)
        \/ ResolveRouteDB(p)
        \/ ResolveMarketDB_Read(p)
        \/ ResolveMarketDB_Write(p)
        \/ Return(p)

Spec == Init /\ [][Next]_vars

SpecAnyAmount == InitAnyAmount /\ [][Next]_vars

(***************************************************************************)
(* Vocabulary of the properties.                                           *)
(***************************************************************************)
BetOps   == {"betP", "betDB"}
SellOps  == {"sellP", "sellDB"}
TradeOps == BetOps \cup SellOps
QuoteOps == {"quoteP", "quoteDB"}

Triple(r) == <<r.yes, r.no, r.k>>

\* the request has computed a trade from the pool it read and its durable
\* write has not answered yet
Computed(p) ==
    /\ loc[p].op \in TradeOps
    /\ pc[p] \in {"update", "dbWrite"}

\* the request holds a pool it read and has not finished writing
InFlight(p, m) ==
    /\ loc[p].op \in TradeOps
    /\ loc[p].m = m
    /\ \/ pc[p] \in {"gotRow", "getPos", "update", "dbWrite"}
       \/ pc[p] = "havePool" /\ loc[p].has

\* C1: in every reachable state, each stored pool (durable row and Map entry)
\* has k = yesReserves * noReserves and both reserves strictly positive.
C1_InvariantPreserved ==
    \A m \in Markets :
        /\ markets[m].status # "ABSENT" =>
              /\ markets[m].k = markets[m].yes * markets[m].no
              /\ markets[m].yes > 0
              /\ markets[m].no > 0
        /\ inMemoryPools[m].present =>
              /\ inMemoryPools[m].pool.k = inMemoryPools[m].pool.yes * inMemoryPools[m].pool.no
              /\ inMemoryPools[m].pool.yes > 0
              /\ inMemoryPools[m].pool.no > 0

\* a trade has succeeded and the row holds its pool, whose k has drifted
C1_Witness ==
    \E p \in Procs :
        /\ pc[p] \in {"posRead", "posWrite"}
        /\ loc[p].op \in TradeOps
        /\ ~loc[p].wfail
        /\ Triple(markets[loc[p].m]) = Triple(loc[p].np)
        /\ loc[p].np.k # loc[p].pool.k

\* C2: for every market at most one transition (read pool, compute, write
\* pool) is in flight at any time.
C2_OneTransitionInFlight ==
    \A m \in Markets : \A p, q \in Procs :
        InFlight(p, m) /\ InFlight(q, m) => p = q

\* C3: no lost update: a transition's durable write never replaces a row that
\* differs from the pool the transition read.
C3_NoLostUpdate ==
    [][\A p \in Procs :
          (Computed(p) /\ pc'[p] # pc[p] /\ markets'[loc[p].m] # markets[loc[p].m])
              => Triple(markets[loc[p].m]) = Triple(loc[p].pool)]_vars

\* C4: a transition whose durable write failed reports an error, and the Map
\* does not keep the pool of the failed write.
C4_FailedWriteFailsTransition ==
    \A p \in Procs :
        (loc[p].op \in TradeOps /\ loc[p].wfail) =>
            /\ pc[p] = "done" => loc[p].res # "ok"
            /\ ~(/\ inMemoryPools[loc[p].m].present
                 /\ ~confirmed[loc[p].m]
                 /\ inMemoryPools[loc[p].m].pool = loc[p].np)

\* C5: the Map holds only pools that the durable store had confirmed before
\* they were put in the Map.
C5_CacheAfterDurableWrite ==
    \A m \in Markets : inMemoryPools[m].present => confirmed[m]

\* C6: buy-then-immediate-sell gives no free value: selling the shares of a
\* successful bet back into the new pool returns at most the USDC paid.
C6_NoFreeValue ==
    \A p \in Procs :
        (Computed(p) /\ loc[p].op \in BetOps) =>
            LET r == sellPosition(loc[p].np, loc[p].shares, loc[p].out)
            IN r.ok => r.usdcOut <= loc[p].amt

\* C7: rounding favors the pool: the product of the reserves after a
\* successful trade is never smaller than the k before it.
C7_RoundingFavorsPool ==
    \A p \in Procs :
        Computed(p) => loc[p].np.yes * loc[p].np.no >= loc[p].pool.k

\* C8: a trade that would take a reserve to 0 or below fails with
\* InsufficientLiquidity and changes no stored pool; no stored or computed
\* reserve is ever non-positive, and a successful buy or quote yields
\* strictly positive shares.
C8_DepletingTradeFails ==
    [][/\ \A m \in Markets :
             /\ markets'[m].status # "ABSENT" => markets'[m].yes > 0 /\ markets'[m].no > 0
             /\ inMemoryPools'[m].present =>
                   inMemoryPools'[m].pool.yes > 0 /\ inMemoryPools'[m].pool.no > 0
       /\ \A p \in Procs :
             /\ (loc'[p].op \in TradeOps /\ pc'[p] \in {"update", "dbWrite"}) =>
                   /\ loc'[p].np.yes > 0 /\ loc'[p].np.no > 0
                   /\ loc'[p].op \in BetOps => loc'[p].shares > 0
             /\ (loc'[p].op \in BetOps \cup QuoteOps /\ loc'[p].res = "ok") =>
                   loc'[p].shares > 0
             /\ (loc'[p].res = "InsufficientLiquidity" /\ loc[p].res = "none") =>
                   markets' = markets /\ inMemoryPools' = inMemoryPools]_vars

\* a bet that would take the chosen reserve to 0 has been refused
C8_Witness ==
    \E p \in Procs :
        /\ pc[p] = "done"
        /\ loc[p].op \in BetOps
        /\ loc[p].res = "InsufficientLiquidity"
        /\ loc[p].has
        /\ markets[loc[p].m].k \div (Other(markets[loc[p].m], loc[p].out) + loc[p].amt) = 0
        /\ markets[loc[p].m].yes > 0 /\ markets[loc[p].m].no > 0

\* C9: a request with amount <= 0 is rejected before any pool state is read:
\* it never gets past the point where the read is issued, it never holds a
\* pool, and its answer is the rejection of its argument.
C9_ZeroAmountRejectedBeforeRead ==
    \A p \in Procs :
        (loc[p].op \in TradeOps \cup QuoteOps /\ loc[p].amt <= 0) =>
            /\ pc[p] \in {"dbRead", "getMarket", "done"}
            /\ ~loc[p].has
            /\ pc[p] = "done" => loc[p].res \in {"BadRequest", "InvalidArgument"}

\* C10: once a market is RESOLVED its stored reserves and k never change, and
\* every trade on it is rejected.
C10_ResolvedIsReadOnly ==
    [][\A m \in Markets :
          markets[m].status = "RESOLVED" =>
              /\ Triple(markets'[m]) = Triple(markets[m])
              /\ \A p \in Procs :
                    (loc'[p].m = m /\ loc'[p].op \in TradeOps /\ loc'[p].late
                        /\ pc'[p] = "done") => loc'[p].res # "ok"]_vars

\* C11: a sell of more shares than the seller holds for (market, outcome) is
\* rejected on every path that exposes sellPosition: no sell gets as far as
\* its reserves write while the seller's stored position is missing or
\* smaller than the amount sold.
C11_SellWithinHolding ==
    \A p \in Procs :
        (loc[p].op \in SellOps /\ pc[p] \in {"update", "dbWrite"}) =>
            LET held == positions[<<loc[p].m, loc[p].u, loc[p].out>>]
            IN held # NoPos /\ held >= loc[p].amt

\* C12: no partial trade: a trade whose reserves write has been applied does
\* not end in an error, and a bet whose reserves write has been applied does
\* not end before its shares are credited to the buyer's stored position.
C12_NoPartialTrade ==
    [][\A p \in Procs :
          (/\ loc[p].op \in TradeOps
           /\ pc[p] \in {"posRead", "posWrite"}
           /\ ~loc[p].wfail
           /\ pc'[p] = "done")
          => /\ loc'[p].res = "ok"
             /\ loc[p].op \in BetOps =>
                   positions'[<<loc[p].m, loc[p].u, loc[p].out>>] = loc[p].cur + loc[p].shares]_vars

(***************************************************************************)
(* Quotes on a fixed pool: clients only ask for quotes, over a wider range *)
(* of pools and amounts.                                                   *)
(***************************************************************************)
InitQuote ==
    Start([amounts |-> [str : {TRUE}, val : 1..MaxQuoteAmount],
           liquidities |-> [str : {TRUE}, val : 2..MaxQuoteLiquidity],
           markets |-> {"m1"}])

NextQuote ==
    \E p \in Procs :
        \/ QuoteRoute(p)
        \/ GetPoolState_Read(p)
        \/ GetPoolState_Cache(p)
        \/ GetQuotePersistent_Execute(p)
        \/ QuoteRouteDB(p)
        \/ QuoteBetDB_Read(p)
        \/ Return(p)

SpecQuote == InitQuote /\ [][NextQuote]_vars

\* C13: on a fixed pool the effective price usdcIn / sharesOut of a buy quote
\* is non-decreasing in usdcIn: for two successful quotes of the same outcome
\* with x1 <= x2, x1 * sharesOut(x2) <= x2 * sharesOut(x1).
C13_PriceMonotone ==
    \A p, q \in Procs :
        (/\ pc[p] = "done" /\ pc[q] = "done"
         /\ loc[p].op \in QuoteOps /\ loc[q].op \in QuoteOps
         /\ loc[p].res = "ok" /\ loc[q].res = "ok"
         /\ loc[p].m = loc[q].m /\ loc[p].out = loc[q].out
         /\ loc[p].amt <= loc[q].amt)
        => loc[p].amt * loc[q].shares <= loc[q].amt * loc[p].shares

\* prices of a snapshot: yesPrice = no / (yes + no), and the probabilities
\* Math.round(price * 100)
yesProbability(pool) ==
    IF pool.yes + pool.no > 0
    THEN (200 * pool.no + (pool.yes + pool.no)) \div (2 * (pool.yes + pool.no))
    ELSE 50

noProbability(pool) ==
    IF pool.yes + pool.no > 0
    THEN (200 * pool.yes + (pool.yes + pool.no)) \div (2 * (pool.yes + pool.no))
    ELSE 50

\* C14: createMarket(marketId, L) with L > 0 produces a pool with
\* yesReserves = noReserves = L, k = L * L, totalCollateral = 2 * L, whose
\* snapshot has yesProbability = noProbability = 50.
C14_CreateSymmetric ==
    \A p \in Procs :
        (/\ loc[p].op \in {"createP", "createDB"}
         /\ pc[p] \in {"insertP", "insertDB"}
         /\ loc[p].amt > 0)
        => /\ loc[p].np.yes = loc[p].amt
           /\ loc[p].np.no = loc[p].amt
           /\ loc[p].np.k = loc[p].amt * loc[p].amt
           /\ loc[p].np.tc = 2 * loc[p].amt
           /\ yesProbability(loc[p].np) = 50
           /\ noProbability(loc[p].np) = 50

(***************************************************************************)
(* Market creation with any initialLiquidity a client can send: only the   *)
(* creation handlers run, on both market ids.                              *)
(***************************************************************************)
InitAnyLiquidity ==
    Start([amounts |-> ValidAmounts, liquidities |-> LiquidityInputs, markets |-> Markets])

NextCreate ==
    \E p \in Procs :
        \/ CreateMarketRoute(p)
        \/ CreateMarketPersistent_Save(p)
        \/ CreateRouteDB(p)
        \/ CreateMarketDB_Insert(p)
        \/ Return(p)

SpecAnyLiquidity == InitAnyLiquidity /\ [][NextCreate]_vars

\* C15: a creation with initialLiquidity <= 0 is refused and creates nothing:
\* it never answers success, and no row and no Map entry with a non-positive
\* reserve ever exists.
C15_InvalidLiquidityRejected ==
    /\ \A p \in Procs :
          (loc[p].op \in {"createP", "createDB"} /\ loc[p].amt <= 0 /\ pc[p] = "done")
              => loc[p].res # "ok"
    /\ \A m \in Markets :
          /\ markets[m].status # "ABSENT" => markets[m].yes > 0 /\ markets[m].no > 0
          /\ inMemoryPools[m].present =>
                inMemoryPools[m].pool.yes > 0 /\ inMemoryPools[m].pool.no > 0

\* C16: quoting is pure: no step of a quote changes a row, a stored position,
\* or the pool or the positions of a Map entry that exists.
C16_QuoteIsPure ==
    [][\A p \in Procs :
          (loc[p].op \in QuoteOps /\ pc'[p] # pc[p]) =>
              /\ markets' = markets
              /\ positions' = positions
              /\ \A m \in Markets :
                    inMemoryPools[m].present => inMemoryPools'[m] = inMemoryPools[m]
              /\ \A key \in PosKeys :
                    inMemoryPools[key[1]].present => memPositions'[key] = memPositions[key]]_vars

\* the expectedShares that the quote formula prescribes
ExpectedShares(pool, x, o) == Chosen(pool, o) - (pool.k \div (Other(pool, o) + x))

InitTwoMarkets ==
    Start([amounts |-> ValidAmounts,
           liquidities |-> [str : {TRUE}, val : {MaxLiquidity}],
           markets |-> Markets])

NextTwoMarkets ==
    \E p \in Procs :
        \/ BetRoute(p)
        \/ SellRoute(p)
        \/ QuoteRoute(p)
        \/ GetPoolState_Read(p)
        \/ GetPoolState_Cache(p)
        \/ PlaceBetPersistent_Execute(p)
        \/ SellPositionPersistent_Execute(p)
        \/ GetQuotePersistent_Execute(p)
        \/ UpdatePoolState_Write(p)
        \/ UpdateUserPosition_Read(p)
        \/ UpdateUserPosition_Write(p)
        \/ Return(p)

SpecTwoMarkets == InitTwoMarkets /\ [][NextTwoMarkets]_vars

\* the market a step of request p is about
MarketOfStep(p) == IF pc[p] = "idle" THEN loc'[p].m ELSE loc[p].m

\* C18: trades on different markets are independent: a step of a quote, bet
\* or sell on market A leaves the row, the Map entry and the positions of
\* every other market B unchanged, and the pool it works on comes from A's
\* row or A's Map entry only.
C18_MarketsIndependent ==
    [][\A p \in Procs :
          pc'[p] # pc[p] =>
              /\ \A b \in Markets \ {MarketOfStep(p)} :
                    /\ markets'[b] = markets[b]
                    /\ inMemoryPools'[b] = inMemoryPools[b]
                    /\ \A u \in Users, o \in Outcomes :
                          /\ positions'[<<b, u, o>>] = positions[<<b, u, o>>]
                          /\ memPositions'[<<b, u, o>>] = memPositions[<<b, u, o>>]
              /\ loc'[p].pool \in {NoPool, loc[p].pool,
                                   marketRowToPoolState(markets[MarketOfStep(p)]),
                                   inMemoryPools[MarketOfStep(p)].pool}]_vars

\* trades on the two markets are in flight at the same time, each with its
\* own pool in the Map
C18_Witness ==
    \E p, q \in Procs :
        /\ loc[p].m = "m1" /\ loc[q].m = "m2"
        /\ loc[p].op \in TradeOps /\ loc[q].op \in TradeOps
        /\ pc[p] \in {"dbWrite", "posRead", "posWrite"}
        /\ pc[q] \in {"dbWrite", "posRead", "posWrite"}
        /\ inMemoryPools["m1"].present /\ inMemoryPools["m1"].pool = loc[p].np
        /\ inMemoryPools["m2"].present /\ inMemoryPools["m2"].pool = loc[q].np
        /\ memPositions # [key \in PosKeys |-> 0]

\* C19: a failed read of the durable store is never downgraded to "no such
\* market": getPoolState yields null, and the backend answers NotFound, only
\* when the market has neither a row nor a Map entry.
C19_ReadFailureSurfaced ==
    [][\A p \in Procs :
          /\ (pc[p] = "dbRead" /\ pc'[p] = "havePool" /\ ~loc'[p].has)
                => markets[loc[p].m].status = "ABSENT"
          /\ (pc[p] = "getMarket" /\ pc'[p] = "done" /\ loc'[p].res = "NotFound")
                => markets[loc[p].m].status = "ABSENT"]_vars

\* C20: getPoolState is a read-through cache: a request that finds a Map
\* entry gets the pool of that entry; a request goes to the store only when
\* there is no entry; a row that the store returns is converted, put in the
\* Map and returned; and when the store has no row the answer is null.
C20_ReadThroughCache ==
    [][\A p \in Procs :
          /\ (pc[p] = "idle" /\ pc'[p] = "havePool")
                => /\ inMemoryPools[loc'[p].m].present
                   /\ loc'[p].has
                   /\ loc'[p].pool = inMemoryPools[loc'[p].m].pool
          /\ (pc[p] = "idle" /\ pc'[p] = "dbRead")
                => ~inMemoryPools[loc'[p].m].present
          /\ (pc[p] = "dbRead" /\ pc'[p] = "gotRow")
                => /\ markets[loc[p].m].status # "ABSENT"
                   /\ loc'[p].pool = marketRowToPoolState(markets[loc[p].m])
          /\ (pc[p] = "dbRead" /\ markets[loc[p].m].status = "ABSENT" /\ pc'[p] # pc[p])
                => pc'[p] = "havePool" /\ ~loc'[p].has
          /\ (pc[p] = "gotRow" /\ pc'[p] # pc[p])
                => /\ pc'[p] = "havePool"
                   /\ loc'[p].has
                   /\ loc'[p].pool = loc[p].pool
                   /\ inMemoryPools'[loc[p].m].present
                   /\ inMemoryPools'[loc[p].m].pool = loc[p].pool]_vars

\* a request loaded the pool on a miss and put it in the Map, and the next
\* request for the market hit that entry and holds the same pool
C20_Witness ==
    \E p, q \in Procs :
        /\ p # q
        /\ loc[p].m = loc[q].m
        /\ pc[p] = "havePool" /\ loc[p].has
        /\ pc[q] = "havePool" /\ loc[q].has
        /\ inMemoryPools[loc[p].m].present
        /\ loc[p].pool = inMemoryPools[loc[p].m].pool
        /\ loc[q].pool = inMemoryPools[loc[p].m].pool
        /\ loc[p].pool = marketRowToPoolState(markets[loc[p].m])

(***************************************************************************)
(* ArcYieldVault.sol: deposits, yield and the session state machine.       *)
(* A transaction runs to its end in one step, or reverts and leaves the    *)
(* storage as it was.  Time is counted in hours, so that the products of   *)
(* the yield formula stay in range.                                        *)
(***************************************************************************)
BPS_DENOMINATOR == 10000
\* 365 days, in hours
SECONDS_PER_YEAR == 8760
\* 1 hours
SESSION_TIMEOUT == 1

\* constructor arguments of the deployment: 100% per year, one signature
InitialRateBps == 10000
RequiredSignatures == 1
\* what a user deposits at a time: it yields one unit per hour
DepositUnit == 8760

MaxTime == 2       \* block.timestamp runs from 0 to MaxTime
MaxDeposit == 1    \* deposits of DepositUnit a user holds at most
MaxLock == 1       \* largest amount asked to be locked
MaxPnl == 1        \* largest profit and largest loss a settlement reports

Accounts == {"alice", "bob"}
Relayers == {"relayer"}
\* who calls the functions meant for relayers
Callers == {"alice"} \cup Relayers
\* bytes32 session ids; "0x00" is bytes32(0)
SessionIds == {"0x00", "0x01"}
\* who a signature recovers to, and the signer's address as a number
Signers == {"signerA"}
Addr(s) == 1
SignatureLists == {<<>>, <<"signerA">>, <<"signerA", "signerA">>}
Pnls == {-MaxPnl, MaxPnl}
\* abi.encode(sessionId, finalPnl, signatures[])
Proofs == [sessionId : SessionIds, pnl : Pnls, signatures : SignatureLists]
NoProof == [sessionId |-> "0x00", pnl |-> 0, signatures |-> <<>>]
NoArgs == [amount |-> 0, sessionId |-> "0x00", pnl |-> 0, proof |-> NoProof]

\* the storage after construction, at block time 0
NewVault ==
    [now |-> 0,
     principal |-> [u \in Accounts |-> 0],
     lastYieldClaim |-> [u \in Accounts |-> 0],
     state |-> [u \in Accounts |-> "None"],
     lockedAmount |-> [u \in Accounts |-> 0],
     startedAt |-> [u \in Accounts |-> 0],
     sessionId |-> [u \in Accounts |-> "0x00"],
     usedSessionIds |-> {},
     totalDeposits |-> 0,
     authorizedRelayers |-> {},
     trustedSettlementSigners |-> {},
     accepted |-> [s \in SessionIds |-> 0],
     last |-> [fn |-> "constructor", caller |-> "owner", user |-> "owner",
               args |-> NoArgs, err |-> "ok"]]

Revert(v, e) == [v |-> v, err |-> e]
Ok(v) == [v |-> v, err |-> "ok"]

calculateAccruedYield(v, user) ==
    IF v.principal[user] = 0 THEN 0
    ELSE LET elapsed == v.now - v.lastYieldClaim[user]
         IN (v.principal[user] * InitialRateBps * elapsed) \div (SECONDS_PER_YEAR * BPS_DENOMINATOR)

processDeposit(v, user, amount) ==
    [v EXCEPT !.lastYieldClaim[user] = IF v.principal[user] = 0 THEN v.now ELSE @,
              !.principal[user] = @ + amount,
              !.totalDeposits = @ + amount]

deposit(v, sender, amount) ==
    IF amount = 0 THEN Revert(v, "ZeroAmount")
    ELSE Ok(processDeposit(v, sender, amount))

withdraw(v, sender, amount) ==
    IF amount = 0 THEN Revert(v, "ZeroAmount")
    ELSE IF amount > v.principal[sender] THEN Revert(v, "InsufficientBalance")
    ELSE IF v.state[sender] \in {"PendingBridge", "Active"} THEN Revert(v, "InvalidSessionState")
    ELSE LET left == v.principal[sender] - amount
         IN Ok([v EXCEPT !.principal[sender] = left,
                         !.totalDeposits = @ - amount,
                         !.lastYieldClaim[sender] = IF left = 0 THEN v.now ELSE @])

\* lockSessionAllowance as it would be without `usedSessionIds[sessionId] = true`
lockSessionAllowanceUnmarked(v, sender, amount, sessionId) ==
    IF amount = 0 THEN Revert(v, "ZeroAmount")
    ELSE IF sessionId \in v.usedSessionIds THEN Revert(v, "SessionIdAlreadyUsed")
    ELSE IF v.state[sender] # "None" THEN Revert(v, "InvalidSessionState")
    ELSE IF amount > calculateAccruedYield(v, sender) THEN Revert(v, "InsufficientYield")
    ELSE Ok([v EXCEPT !.state[sender] = "PendingBridge",
                      !.lockedAmount[sender] = amount,
                      !.startedAt[sender] = v.now,
                      !.sessionId[sender] = sessionId])

lockSessionAllowance(v, sender, amount, sessionId) ==
    IF amount = 0 THEN Revert(v, "ZeroAmount")
    ELSE IF sessionId \in v.usedSessionIds THEN Revert(v, "SessionIdAlreadyUsed")
    ELSE IF v.state[sender] # "None" THEN Revert(v, "InvalidSessionState")
    ELSE IF amount > calculateAccruedYield(v, sender) THEN Revert(v, "InsufficientYield")
    ELSE Ok([v EXCEPT !.state[sender] = "PendingBridge",
                      !.lockedAmount[sender] = amount,
                      !.startedAt[sender] = v.now,
                      !.sessionId[sender] = sessionId,
                      !.usedSessionIds = @ \cup {sessionId}])

\* confirmBridge as it would be without the onlyAuthorizedRelayer modifier
confirmBridgeByAnyone(v, sender, user) ==
    IF v.state[user] # "PendingBridge" THEN Revert(v, "InvalidSessionState")
    ELSE Ok([v EXCEPT !.state[user] = "Active"])

confirmBridge(v, sender, user) ==
    IF sender \notin v.authorizedRelayers THEN Revert(v, "UnauthorizedCaller")
    ELSE IF v.state[user] # "PendingBridge" THEN Revert(v, "InvalidSessionState")
    ELSE Ok([v EXCEPT !.state[user] = "Active"])

resetSession(v, user) ==
    [v EXCEPT !.state[user] = "None",
              !.lockedAmount[user] = 0,
              !.startedAt[user] = 0,
              !.sessionId[user] = "0x00"]

cancelTimedOutSession(v, sender, user) ==
    IF v.state[user] # "PendingBridge" THEN Revert(v, "InvalidSessionState")
    ELSE IF v.now < v.startedAt[user] + SESSION_TIMEOUT THEN Revert(v, "SessionNotTimedOut")
    ELSE Ok(resetSession(v, user))

\* the error _verifySettlementProof reverts with, or "ok"
verifySettlementProof(v, sessionId, pnl, proof) ==
    LET sigs == proof.signatures
        validSignatures == Cardinality({i \in 1..Len(sigs) : sigs[i] \in v.trustedSettlementSigners})
    IN IF proof.sessionId # sessionId \/ proof.pnl # pnl THEN "InvalidSettlementProof"
       ELSE IF Len(sigs) < RequiredSignatures THEN "InsufficientSignatures"
       ELSE IF \E i \in 1..Len(sigs) - 1 : Addr(sigs[i + 1]) <= Addr(sigs[i])
            THEN "InvalidSettlementProof"
       ELSE IF validSignatures < RequiredSignatures THEN "InsufficientSignatures"
       ELSE "ok"

\* reconcileSession as it would be if a loss were taken out of the principal
reconcileSessionDebiting(v, sender, user, pnl, proof) ==
    IF sender \notin v.authorizedRelayers THEN Revert(v, "UnauthorizedCaller")
    ELSE IF v.state[user] # "Active" THEN Revert(v, "InvalidSessionState")
    ELSE LET e == verifySettlementProof(v, v.sessionId[user], pnl, proof)
             loss == IF -pnl > v.lockedAmount[user] THEN v.lockedAmount[user] ELSE -pnl
             delta == IF pnl >= 0 THEN pnl ELSE -loss
             credited == [v EXCEPT !.principal[user] = @ + delta,
                                   !.totalDeposits = @ + delta,
                                   !.lastYieldClaim[user] = v.now]
         IN IF e # "ok" THEN Revert(v, e)
            ELSE Ok(resetSession(credited, user))

reconcileSession(v, sender, user, pnl, proof) ==
    IF sender \notin v.authorizedRelayers THEN Revert(v, "UnauthorizedCaller")
    ELSE IF v.state[user] # "Active" THEN Revert(v, "InvalidSessionState")
    ELSE LET e == verifySettlementProof(v, v.sessionId[user], pnl, proof)
             profit == IF pnl >= 0 THEN pnl ELSE 0
             credited == [v EXCEPT !.principal[user] = @ + profit,
                                   !.totalDeposits = @ + profit,
                                   !.lastYieldClaim[user] = v.now]
         IN IF e # "ok" THEN Revert(v, e)
            ELSE Ok(resetSession(credited, user))

setRelayerAuthorization(v, relayer, authorized) ==
    Ok([v EXCEPT !.authorizedRelayers = IF authorized THEN @ \cup {relayer} ELSE @ \ {relayer}])

setSettlementSigner(v, signer, trusted) ==
    Ok([v EXCEPT !.trustedSettlementSigners = IF trusted THEN @ \cup {signer} ELSE @ \ {signer}])

\* the AMM and its servers, at rest
amm == <<markets, positions, inMemoryPools, memPositions, confirmed, pc, loc, nreq, workload>>
NoWorkload == [amounts |-> {}, liquidities |-> {}, markets |-> {}]

outsideVault == <<amm, escrow, yellow, resolver, claims>>

\* A call that ran to its end is a step: the storage as the call left it,
\* a record of the call, and the count of the locks that went through for
\* each session id.  A call that reverts leaves no trace in the storage and
\* is no step; what a call answers in a state is the value of its operator
\* there.
Mined(fn, caller, user, args, r) ==
    /\ r.err = "ok"
    /\ vault' = [r.v EXCEPT !.last = [fn |-> fn, caller |-> caller, user |-> user,
                                       args |-> args, err |-> r.err],
                            !.accepted = IF fn = "lockSessionAllowance"
                                         THEN [@ EXCEPT ![args.sessionId] = @ + 1]
                                         ELSE @]
    /\ UNCHANGED outsideVault

Deposit ==
    \E u \in Accounts, n \in 0..1 :
        /\ vault.principal[u] + n * DepositUnit <= MaxDeposit * DepositUnit
        /\ Mined("deposit", u, u, [NoArgs EXCEPT !.amount = n * DepositUnit],
                 deposit(vault, u, n * DepositUnit))

Withdraw ==
    \E u \in Accounts, n \in 0..MaxDeposit :
        Mined("withdraw", u, u, [NoArgs EXCEPT !.amount = n * DepositUnit],
              withdraw(vault, u, n * DepositUnit))

LockSessionAllowance ==
    \E u \in Accounts, amount \in 0..MaxLock, sessionId \in SessionIds :
        Mined("lockSessionAllowance", u, u,
              [NoArgs EXCEPT !.amount = amount, !.sessionId = sessionId],
              lockSessionAllowance(vault, u, amount, sessionId))

ConfirmBridge ==
    \E c \in Callers, u \in Accounts :
        Mined("confirmBridge", c, u, NoArgs, confirmBridge(vault, c, u))

CancelTimedOutSession ==
    \E c \in Callers, u \in Accounts :
        Mined("cancelTimedOutSession", c, u, NoArgs, cancelTimedOutSession(vault, c, u))

ReconcileSession ==
    \E c \in Callers, u \in Accounts, pnl \in Pnls, proof \in Proofs :
        Mined("reconcileSession", c, u, [NoArgs EXCEPT !.pnl = pnl, !.proof = proof],
              reconcileSession(vault, c, u, pnl, proof))

SetRelayerAuthorization ==
    \E r \in Relayers, b \in BOOLEAN :
        Mined("setRelayerAuthorization", "owner", r, NoArgs, setRelayerAuthorization(vault, r, b))

SetSettlementSigner ==
    \E s \in Signers, b \in BOOLEAN :
        Mined("setSettlementSigner", "owner", s, NoArgs, setSettlementSigner(vault, s, b))

\* a block with a later timestamp
NextBlock ==
    /\ vault.now < MaxTime
    /\ vault' = [vault EXCEPT !.now = @ + 1]
    /\ UNCHANGED outsideVault

InitVault ==
    /\ StartAMM(NoWorkload)
    /\ vault = NewVault
    /\ escrow = Unused
    /\ yellow = Unused
    /\ resolver = Unused
    /\ claims = Unused

NextVault ==
    \/ Deposit
    \/ Withdraw
    \/ LockSessionAllowance
    \/ ConfirmBridge
    \/ CancelTimedOutSession
    \/ ReconcileSession
    \/ SetRelayerAuthorization
    \/ SetSettlementSigner
    \/ NextBlock

SpecVault == InitVault /\ [][NextVault]_vars

(***************************************************************************)
(* Claims on ArcYieldVault.                                                *)
(***************************************************************************)
\* a settlement proof for the session of user u and the reported pnl: it
\* names that session and that pnl and carries the signatures of at least
\* RequiredSignatures different trusted signers
ValidProof(v, u, args) ==
    /\ args.proof.sessionId = v.sessionId[u]
    /\ args.proof.pnl = args.pnl
    /\ Cardinality({s \in v.trustedSettlementSigners :
                       \E i \in 1..Len(args.proof.signatures) : args.proof.signatures[i] = s})
          >= RequiredSignatures

\* C21: the session state of a user changes only from None to PendingBridge
\* by the user's own lockSessionAllowance, from PendingBridge to Active by
\* confirmBridge of a caller who is an authorized relayer, from PendingBridge
\* to None by cancelTimedOutSession once SESSION_TIMEOUT has passed since
\* startedAt, and from Active to None by reconcileSession of an authorized
\* relayer with a valid proof; no other change happens.
C21_SessionTransitions ==
    [][\A u \in Accounts :
          vault.state[u] # vault'.state[u] =>
              LET l == vault'.last
                  from == vault.state[u]
                  to == vault'.state[u]
              IN /\ l.user = u
                 /\ \/ /\ from = "None" /\ to = "PendingBridge"
                       /\ l.fn = "lockSessionAllowance"
                       /\ l.caller = u
                    \/ /\ from = "PendingBridge" /\ to = "Active"
                       /\ l.fn = "confirmBridge"
                       /\ l.caller \in vault.authorizedRelayers
                    \/ /\ from = "PendingBridge" /\ to = "None"
                       /\ l.fn = "cancelTimedOutSession"
                       /\ vault.now - vault.startedAt[u] >= SESSION_TIMEOUT
                    \/ /\ from = "Active" /\ to = "None"
                       /\ l.fn = "reconcileSession"
                       /\ l.caller \in vault.authorizedRelayers
                       /\ ValidProof(vault, u, l.args)]_vars

\* a session was confirmed and settled, and both session ids have been used
C21_Witness ==
    /\ vault.last.fn = "reconcileSession"
    /\ vault.state[vault.last.user] = "None"
    /\ Cardinality(vault.usedSessionIds) = 2

\* the calls of lockSessionAllowance with a session id that a lock has
\* gone through with before
UsedIdLocks ==
    {c \in [user : Accounts, amount : 0..MaxLock, sessionId : SessionIds] :
        vault.accepted[c.sessionId] > 0}

\* C22 as stated: a session id goes through lockSessionAllowance at most
\* once, for whichever user and whatever became of its session, and every
\* later lock with it reverts with SessionIdAlreadyUsed and leaves the
\* storage as it is.
C22_SecondLockAlreadyUsed ==
    /\ \A s \in SessionIds : vault.accepted[s] <= 1
    /\ \A c \in UsedIdLocks :
          LET r == lockSessionAllowance(vault, c.user, c.amount, c.sessionId)
          IN r.err = "SessionIdAlreadyUsed" /\ r.v = vault

\* C22 as the contract has it: a session id goes through
\* lockSessionAllowance at most once, and every later lock with it reverts
\* and leaves the storage as it is; the revert is SessionIdAlreadyUsed,
\* except for an amount of zero, which reverts with ZeroAmount first.
C22_SessionIdOnce ==
    /\ \A s \in SessionIds : vault.accepted[s] <= 1
    /\ \A c \in UsedIdLocks :
          LET r == lockSessionAllowance(vault, c.user, c.amount, c.sessionId)
          IN /\ r.err = IF c.amount = 0 THEN "ZeroAmount" ELSE "SessionIdAlreadyUsed"
             /\ r.v = vault

\* a session id was locked, its session is over, and another user with no
\* session and enough yield asks for it again
C22_Witness ==
    \E c \in UsedIdLocks :
        /\ c.amount > 0
        /\ \A u \in Accounts : vault.state[u] = "None"
        /\ vault.last.fn \in {"cancelTimedOutSession", "reconcileSession"}
        /\ c.user # vault.last.user
        /\ calculateAccruedYield(vault, c.user) >= c.amount
        /\ lockSessionAllowance(vault, c.user, c.amount, c.sessionId).err = "SessionIdAlreadyUsed"

\* amounts a user may ask to withdraw: nothing, a unit, a deposit, everything
WithdrawalsOf(v, u) == {0, 1, DepositUnit, v.principal[u]}

\* C23: a user's principal goes down only by a withdraw of that user, made
\* while the user has no session; totalDeposits goes down only by a
\* withdraw; a reconcileSession that reports a loss leaves every principal
\* and totalDeposits as they were; and whenever a user's session is
\* PendingBridge or Active, every withdraw of that user reverts.
C23_PrincipalSafe ==
    [][LET l == vault'.last
       IN /\ \A u \in Accounts :
                vault'.principal[u] < vault.principal[u] =>
                    /\ l.fn = "withdraw" /\ l.caller = u
                    /\ vault.state[u] = "None"
          /\ vault'.totalDeposits < vault.totalDeposits => l.fn = "withdraw"
          /\ \A u \in Accounts :
                (vault.state[u] = "Active" /\ vault'.state[u] = "None" /\ l.args.pnl < 0) =>
                    /\ vault'.principal = vault.principal
                    /\ vault'.totalDeposits = vault.totalDeposits
          /\ \A u \in Accounts :
                vault'.state[u] \in {"PendingBridge", "Active"} =>
                    \A amount \in WithdrawalsOf(vault', u) :
                        LET r == withdraw(vault', u, amount)
                        IN r.err # "ok" /\ r.v = vault']_vars

\* a session was settled with a loss, and its user still holds the deposit
C23_Witness ==
    /\ vault.last.fn = "reconcileSession"
    /\ vault.last.args.pnl < 0
    /\ vault.principal[vault.last.user] = DepositUnit
    /\ vault.totalDeposits >= DepositUnit

(***************************************************************************)
(* SessionEscrow.sol: the escrow of a session on the Yellow chain.  Time   *)
(* is counted in half days.                                                *)
(***************************************************************************)
\* SESSION_TIMEOUT of SessionEscrow: 24 hours
ESCROW_SESSION_TIMEOUT == 2
\* constructor argument of the deployment scripts: 10%
PROTOCOL_FEE_BPS == 1000
\* the amounts escrowed are multiples of this unit, of which 10% is a unit of USDC
EscrowUnit == 10

MaxEscrow == 2        \* units the contract holds at most; pnl runs one unit beyond
MaxEscrowTime == 2    \* block.timestamp runs from 0 to MaxEscrowTime

ZeroAddress == "0x0"
EscrowAmounts == {k * EscrowUnit : k \in 0..MaxEscrow}
\* a loss and a win of one unit and of more than any escrow, and a draw
EscrowPnls == {k * EscrowUnit : k \in {-(MaxEscrow + 1), -1, 0, 1, MaxEscrow + 1}}
\* what setProtocolFee is called with: 10%, 100%
FeeRates == {PROTOCOL_FEE_BPS, BPS_DENOMINATOR}

EmptyEscrow == [state |-> "Empty", amount |-> 0, fundedAt |-> 0, user |-> ZeroAddress]
NoPayout == [sessionId |-> "0x00", pnl |-> 0, amount |-> 0, userPayout |-> 0, protocolFee |-> 0]

\* the storage after construction, at block time 0, and the USDC the contract holds
NewEscrow ==
    [now |-> 0,
     protocolFeeBps |-> PROTOCOL_FEE_BPS,
     authorizedRelayers |-> {},
     trustedNitroliteSigners |-> {},
     escrows |-> [s \in SessionIds |-> EmptyEscrow],
     userActiveSession |-> [u \in Accounts |-> "0x00"],
     held |-> 0,
     last |-> [fn |-> "other", paid |-> NoPayout]]

receiveEscrow(e, sender, user, sessionId, amount) ==
    IF sender \notin e.authorizedRelayers THEN Revert(e, "UnauthorizedCaller")
    ELSE IF amount = 0 THEN Revert(e, "ZeroAmount")
    ELSE IF user = ZeroAddress THEN Revert(e, "InvalidAddress")
    ELSE IF e.userActiveSession[user] # "0x00" THEN Revert(e, "UserAlreadyHasActiveSession")
    ELSE Ok([e EXCEPT !.held = @ + amount,
                      !.escrows[sessionId] = [state |-> "Funded", amount |-> amount,
                                              fundedAt |-> e.now, user |-> user],
                      !.userActiveSession[user] = sessionId])

activateSession(e, sender, sessionId) ==
    IF sender \notin e.authorizedRelayers THEN Revert(e, "UnauthorizedCaller")
    ELSE IF e.escrows[sessionId].state # "Funded" THEN Revert(e, "InvalidEscrowState")
    ELSE Ok([e EXCEPT !.escrows[sessionId].state = "Active"])

\* the error _verifySettlement reverts with, or "ok"
verifySettlement(e, signatures) ==
    LET validSignatures ==
            Cardinality({i \in 1..Len(signatures) : signatures[i] \in e.trustedNitroliteSigners})
    IN IF Len(signatures) < RequiredSignatures THEN "InsufficientSignatures"
       ELSE IF \E i \in 1..Len(signatures) - 1 : Addr(signatures[i + 1]) <= Addr(signatures[i])
            THEN "InvalidSettlementProof"
       ELSE IF validSignatures < RequiredSignatures THEN "InsufficientSignatures"
       ELSE "ok"

\* lines 248-288 of settleSession: userPayout and protocolFee, or the
\* arithmetic panic of `escrowAmount + winnings - protocolFee`
Payout(escrowAmount, pnl, protocolFeeBps) ==
    IF pnl >= 0
    THEN LET winnings == IF pnl > escrowAmount THEN escrowAmount ELSE pnl
             fee == (winnings * protocolFeeBps) \div BPS_DENOMINATOR
             payout == escrowAmount + winnings - fee
         IN IF payout < 0 THEN [err |-> "Panic", userPayout |-> 0, protocolFee |-> 0]
            ELSE IF payout > escrowAmount
                 THEN [err |-> "ok", userPayout |-> escrowAmount, protocolFee |-> 0]
                 ELSE [err |-> "ok", userPayout |-> payout, protocolFee |-> fee]
    ELSE LET loss == -pnl
         IN [err |-> "ok",
             userPayout |-> IF loss >= escrowAmount THEN 0 ELSE escrowAmount - loss,
             protocolFee |-> 0]

settleSession(e, sender, sessionId, pnl, signatures) ==
    LET x == e.escrows[sessionId]
        v == verifySettlement(e, signatures)
        p == Payout(x.amount, pnl, e.protocolFeeBps)
    IN IF sender \notin e.authorizedRelayers THEN Revert(e, "UnauthorizedCaller")
       ELSE IF x.state # "Active" THEN Revert(e, "InvalidEscrowState")
       ELSE IF v # "ok" THEN Revert(e, v)
       ELSE IF p.err # "ok" THEN Revert(e, p.err)
       ELSE IF p.userPayout + p.protocolFee > e.held THEN Revert(e, "ERC20InsufficientBalance")
       ELSE Ok([e EXCEPT !.escrows[sessionId].state = "Settled",
                         !.userActiveSession[x.user] = "0x00",
                         !.held = @ - (p.userPayout + p.protocolFee),
                         !.last = [fn |-> "settleSession",
                                   paid |-> [sessionId |-> sessionId, pnl |-> pnl,
                                             amount |-> x.amount,
                                             userPayout |-> p.userPayout,
                                             protocolFee |-> p.protocolFee]]])

timeoutRelease(e, sender, sessionId) ==
    LET x == e.escrows[sessionId]
    IN IF x.state \notin {"Funded", "Active"} THEN Revert(e, "InvalidEscrowState")
       ELSE IF e.now < x.fundedAt + ESCROW_SESSION_TIMEOUT THEN Revert(e, "SessionNotTimedOut")
       ELSE IF x.amount > e.held THEN Revert(e, "ERC20InsufficientBalance")
       ELSE Ok([e EXCEPT !.escrows[sessionId].state = "Settled",
                         !.userActiveSession[x.user] = "0x00",
                         !.held = @ - x.amount])

setProtocolFee(e, feeBps) == Ok([e EXCEPT !.protocolFeeBps = feeBps])

setEscrowRelayerAuthorization(e, relayer, authorized) ==
    Ok([e EXCEPT !.authorizedRelayers = IF authorized THEN @ \cup {relayer} ELSE @ \ {relayer}])

setNitroliteSigner(e, signer, trusted) ==
    Ok([e EXCEPT !.trustedNitroliteSigners = IF trusted THEN @ \cup {signer} ELSE @ \ {signer}])

outsideEscrow == <<amm, vault, yellow, resolver, claims>>

\* a call that ran to its end; settleSession leaves the record of what it
\* paid, any other call wipes it
EscrowMined(fn, r) ==
    /\ r.err = "ok"
    /\ escrow' = IF fn = "settleSession" THEN r.v
                 ELSE [r.v EXCEPT !.last = [fn |-> "other", paid |-> NoPayout]]
    /\ UNCHANGED outsideEscrow

ReceiveEscrow ==
    \E c \in Callers, u \in Accounts \cup {ZeroAddress}, s \in SessionIds, a \in EscrowAmounts :
        /\ escrow.held + a <= MaxEscrow * EscrowUnit
        /\ EscrowMined("receiveEscrow", receiveEscrow(escrow, c, u, s, a))

ActivateSession ==
    \E c \in Callers, s \in SessionIds :
        EscrowMined("activateSession", activateSession(escrow, c, s))

SettleSession ==
    \E c \in Callers, s \in SessionIds, pnl \in EscrowPnls, sigs \in SignatureLists :
        EscrowMined("settleSession", settleSession(escrow, c, s, pnl, sigs))

TimeoutRelease ==
    \E c \in Callers, s \in SessionIds :
        EscrowMined("timeoutRelease", timeoutRelease(escrow, c, s))

SetProtocolFee ==
    \E f \in FeeRates : EscrowMined("setProtocolFee", setProtocolFee(escrow, f))

SetEscrowRelayerAuthorization ==
    \E r \in Relayers, b \in BOOLEAN :
        EscrowMined("setRelayerAuthorization", setEscrowRelayerAuthorization(escrow, r, b))

SetNitroliteSigner ==
    \E s \in Signers, b \in BOOLEAN :
        EscrowMined("setNitroliteSigner", setNitroliteSigner(escrow, s, b))

EscrowNextBlock ==
    /\ escrow.now < MaxEscrowTime
    /\ escrow' = [escrow EXCEPT !.now = @ + 1, !.last = [fn |-> "other", paid |-> NoPayout]]
    /\ UNCHANGED outsideEscrow

InitEscrow ==
    /\ StartAMM(NoWorkload)
    /\ vault = Unused
    /\ escrow = NewEscrow
    /\ yellow = Unused
    /\ resolver = Unused
    /\ claims = Unused

NextEscrow ==
    \/ ReceiveEscrow
    \/ ActivateSession
    \/ SettleSession
    \/ TimeoutRelease
    \/ SetProtocolFee
    \/ SetEscrowRelayerAuthorization
    \/ SetNitroliteSigner
    \/ EscrowNextBlock

SpecEscrow == InitEscrow /\ [][NextEscrow]_vars

\* C24: a settlement pays the user no more than the session's escrow, and
\* the user and the treasury together no more than the session's escrow,
\* whatever the pnl and the protocol fee rate.
C24_PayoutWithinEscrow ==
    escrow.last.fn = "settleSession" =>
        /\ escrow.last.paid.userPayout <= escrow.last.paid.amount
        /\ escrow.last.paid.userPayout + escrow.last.paid.protocolFee <= escrow.last.paid.amount

\* C25: a settlement with pnl > 0 pays the treasury the fee on the winnings,
\* min(pnl, escrow amount) * protocolFeeBps / 10000; a settlement with
\* pnl < 0 pays no fee and pays the user the escrow less the loss, or
\* nothing when the loss is the escrow or more.
C25_FeeOnWinnings ==
    escrow.last.fn = "settleSession" =>
        LET p == escrow.last.paid
            winnings == IF p.pnl > p.amount THEN p.amount ELSE p.pnl
        IN /\ p.pnl > 0 =>
                p.protocolFee = (winnings * escrow.protocolFeeBps) \div BPS_DENOMINATOR
           /\ p.pnl < 0 =>
                /\ p.protocolFee = 0
                /\ p.userPayout = IF -p.pnl >= p.amount THEN 0 ELSE p.amount + p.pnl

(***************************************************************************)
(* YellowSessionService (session-service.ts) with SafeModeEnforcer         *)
(* (safe-mode.ts) and StreamingBalanceCalculator.  Time is counted in      *)
(* days, so that the products of the yield formula stay in range.          *)
(***************************************************************************)
\* SECONDS_PER_YEAR of StreamingBalanceCalculator: 365 * 24 * 60 * 60, in days
YELLOW_SECONDS_PER_YEAR == 365
\* rwaRateBps of openSession: the BUIDL rate
DefaultRwaRateBps == 520
\* the collateral of a session: it yields one unit per day
CollateralUnit == 7020

MaxYellowTime == 1   \* Date.now() runs from 0 to MaxYellowTime
MaxSessions == 1     \* sessions in the Map at most
MaxBets == 2         \* bets in a session at most

YellowTimes == 0..MaxYellowTime
\* what a bet is placed with: less than nothing, nothing, a unit, the whole collateral
BetAmounts == {-1, 0, 1, CollateralUnit}
NoSession == [open |-> FALSE, collateral |-> 0, safeModeEnabled |-> FALSE, createdAt |-> 0,
              nonce |-> 0, bets |-> <<>>, isFinal |-> FALSE]

\* the service after construction: two empty Maps.  A session id is made of
\* Date.now() and the user's address; with one user it is the creation time.
NewYellow == [now |-> 0, sessions |-> [t \in YellowTimes |-> NoSession]]

calculateYield(principal, rwaRateBps, elapsedSeconds) ==
    (principal * rwaRateBps * elapsedSeconds) \div (YELLOW_SECONDS_PER_YEAR * BPS_DENOMINATOR)

calculate(principal, rwaRateBps, elapsedSeconds, openBets) ==
    LET accruedYield == calculateYield(principal, rwaRateBps, elapsedSeconds)
    IN [accruedYield |-> accruedYield,
        currentBalance |-> IF principal + accruedYield > openBets
                           THEN principal + accruedYield - openBets ELSE 0]

\* getAvailableBalance as it would be if Safe Mode did not take the open bets off
getAvailableBalanceGross(now, config, principal, openBets, safeMode) ==
    LET result == calculate(principal, DefaultRwaRateBps, now - config.createdAt, openBets)
    IN IF safeMode THEN result.accruedYield ELSE result.currentBalance

getAvailableBalance(now, config, principal, openBets, safeMode) ==
    LET result == calculate(principal, DefaultRwaRateBps, now - config.createdAt, openBets)
    IN IF safeMode
       THEN IF result.accruedYield > openBets THEN result.accruedYield - openBets ELSE 0
       ELSE result.currentBalance

RECURSIVE SumUnresolved(_)
SumUnresolved(bets) ==
    IF bets = <<>> THEN 0
    ELSE (IF bets[1].resolved THEN 0 ELSE bets[1].amount) + SumUnresolved(Tail(bets))

getTotalBets(state) == SumUnresolved(state.bets)

openSession(y, collateral, safeModeEnabled) ==
    [y EXCEPT !.sessions[y.now] =
        [open |-> TRUE, collateral |-> collateral, safeModeEnabled |-> safeModeEnabled,
         createdAt |-> y.now, nonce |-> 0, bets |-> <<>>, isFinal |-> FALSE]]

\* placeBet: the service after the call, and whether the call threw
placeBetInSession(y, sessionId, amount) ==
    LET s == y.sessions[sessionId]
        available == getAvailableBalance(y.now, s, s.collateral, getTotalBets(s), s.safeModeEnabled)
    IN IF ~s.open THEN [y |-> y, err |-> "Session not found"]
       ELSE IF amount > available THEN [y |-> y, err |-> "Insufficient balance"]
       ELSE [y |-> [y EXCEPT !.sessions[sessionId].bets =
                                  Append(@, [amount |-> amount, resolved |-> FALSE]),
                              !.sessions[sessionId].nonce = @ + 1],
             err |-> "ok"]

closeSession(y, sessionId) ==
    IF ~y.sessions[sessionId].open THEN [y |-> y, err |-> "Session not found"]
    ELSE [y |-> [y EXCEPT !.sessions[sessionId].isFinal = TRUE], err |-> "ok"]

outsideYellow == <<amm, vault, escrow, resolver, claims>>

OpenSession ==
    \E safeMode \in BOOLEAN :
        /\ Cardinality({t \in YellowTimes : yellow.sessions[t].open} \cup {yellow.now}) <= MaxSessions
        /\ yellow' = openSession(yellow, CollateralUnit, safeMode)
        /\ UNCHANGED outsideYellow

\* a call that throws leaves the Maps as they are and is no step
PlaceBetInSession ==
    \E t \in YellowTimes, amount \in BetAmounts :
        LET r == placeBetInSession(yellow, t, amount)
        IN /\ r.err = "ok"
           /\ Len(yellow.sessions[t].bets) < MaxBets
           /\ yellow' = r.y
           /\ UNCHANGED outsideYellow

CloseSession ==
    \E t \in YellowTimes :
        LET r == closeSession(yellow, t)
        IN /\ r.err = "ok"
           /\ yellow' = r.y
           /\ UNCHANGED outsideYellow

YellowTick ==
    /\ yellow.now < MaxYellowTime
    /\ yellow' = [yellow EXCEPT !.now = @ + 1]
    /\ UNCHANGED outsideYellow

InitYellow ==
    /\ StartAMM(NoWorkload)
    /\ vault = Unused
    /\ escrow = Unused
    /\ yellow = NewYellow
    /\ resolver = Unused
    /\ claims = Unused

NextYellow ==
    \/ OpenSession
    \/ PlaceBetInSession
    \/ CloseSession
    \/ YellowTick

SpecYellow == InitYellow /\ [][NextYellow]_vars

\* what the unresolved bets of a session may add up to at time now: the
\* yield accrued since the session was opened, and in full mode the
\* collateral on top of it
BetLimit(now, s) ==
    LET accrued == calculateYield(s.collateral, DefaultRwaRateBps, now - s.createdAt)
    IN IF s.safeModeEnabled THEN accrued ELSE s.collateral + accrued

ResolverMarkets == {"btc-100k-feb", "eth-5k-feb"}
UnknownMarket == "unknown"
Threshold(m) == IF m = "btc-100k-feb" THEN 100000 ELSE 5000
\* getMockPrice: what getLatestPrice answers when the fetch fails
MockPrice(m) == IF m = "btc-100k-feb" THEN 97500 ELSE 4850
\* what getLatestPrice may answer: the mock price, or a live price at the threshold
OraclePrices(m) == {MockPrice(m), Threshold(m)}

NoResolve == [pc |-> "idle", m |-> UnknownMarket, res |-> "none", outcome |-> "none"]

\* after the constructor: seedDemoMarkets
NewResolver ==
    [markets |-> [m \in ResolverMarkets |-> [status |-> "open", resolution |-> "none"]],
     req |-> [p \in Procs |-> NoResolve]]

outsideResolver == <<amm, vault, escrow, yellow, claims>>

\* POST /:marketId/resolve, up to the await of getLatestPrice
ResolveMarket_Check(p, m) ==
    /\ resolver.req[p].pc = "idle"
    /\ resolver' =
          [resolver EXCEPT !.req[p] =
              IF m \notin ResolverMarkets
              THEN [pc |-> "done", m |-> m, res |-> "Market not found", outcome |-> "none"]
              ELSE IF resolver.markets[m].status = "resolved"
                   THEN [pc |-> "done", m |-> m, res |-> "Market already resolved", outcome |-> "none"]
                   ELSE [pc |-> "fetching", m |-> m, res |-> "none", outcome |-> "none"]]
    /\ UNCHANGED outsideResolver

\* the price arrives: the outcome is written and returned
ResolveMarket_Write(p) ==
    /\ resolver.req[p].pc = "fetching"
    /\ \E price \in OraclePrices(resolver.req[p].m) :
          LET m == resolver.req[p].m
              outcome == IF price >= Threshold(m) THEN "YES" ELSE "NO"
          IN resolver' =
                [resolver EXCEPT !.markets[m] = [status |-> "resolved", resolution |-> outcome],
                                 !.req[p] = [pc |-> "done", m |-> m, res |-> "ok", outcome |-> outcome]]
    /\ UNCHANGED outsideResolver

\* the response is sent
ResolveMarket_Return(p) ==
    /\ resolver.req[p].pc = "done"
    /\ resolver' = [resolver EXCEPT !.req[p] = NoResolve]
    /\ UNCHANGED outsideResolver

InitResolver ==
    /\ StartAMM(NoWorkload)
    /\ vault = Unused
    /\ escrow = Unused
    /\ yellow = Unused
    /\ resolver = NewResolver
    /\ claims = Unused

NextResolver ==
    \/ \E p \in Procs, m \in ResolverMarkets \cup {UnknownMarket} : ResolveMarket_Check(p, m)
    \/ \E p \in Procs : ResolveMarket_Write(p)
    \/ \E p \in Procs : ResolveMarket_Return(p)

SpecResolver == InitResolver /\ [][NextResolver]_vars

\* C27: once a market is resolved its entry never changes again, and a
\* resolve request that ends when the market is already resolved ends with
\* `Market already resolved`, also when it began before the resolution.
C27_ResolvedOnce ==
    [][/\ \A m \in ResolverMarkets :
            resolver.markets[m].status = "resolved" => resolver'.markets[m] = resolver.markets[m]
       /\ \A p \in Procs :
            LET r == resolver'.req[p]
            IN (resolver.req[p].pc # "done" /\ r.pc = "done" /\ r.m \in ResolverMarkets) =>
                   (resolver.markets[r.m].status = "resolved" => r.res = "Market already resolved")]_vars

(***************************************************************************)
(* claimWinningsDB (db-pool-manager.ts) on one market and one user: the    *)
(* market row, the user's two position rows and the user's session row.    *)
(***************************************************************************)
MaxShares == 2   \* shares of a position when the claims begin: 0..MaxShares

NoClaim == [pc |-> "idle", outcome |-> "YES", shares |-> 0, balance |-> 0, nonce |-> 0, res |-> "none"]

\* a market row, ACTIVE or RESOLVED with its resolution_value (or without)
ClaimRows ==
    {[status |-> "ACTIVE", resolution_value |-> "none"]}
        \cup [status : {"RESOLVED"}, resolution_value : {"YES", "NO", "none"}]

\* The rows as trading and resolution left them; no winnings credited yet.
\* `atStart` keeps the position rows as they were then.
InitClaims ==
    /\ StartAMM(NoWorkload)
    /\ vault = Unused
    /\ escrow = Unused
    /\ yellow = Unused
    /\ resolver = Unused
    /\ \E row \in ClaimRows, pos \in [Outcomes -> {NoPos} \cup 0..MaxShares], active \in BOOLEAN :
          claims = [row |-> row,
                    position |-> pos,
                    atStart |-> pos,
                    session |-> [present |-> active, current_balance |-> 0, nonce |-> 0],
                    req |-> [p \in Procs |-> NoClaim]]

outsideClaims == <<amm, vault, escrow, yellow, resolver>>

ClaimStep(p, r) ==
    /\ claims' = [claims EXCEPT !.req[p] = r]
    /\ UNCHANGED outsideClaims

ClaimThrows(p, e) == ClaimStep(p, [claims.req[p] EXCEPT !.pc = "done", !.res = e])

\* 1. await db.getMarket and the checks on the row
ClaimWinningsDB_GetMarket(p) ==
    /\ claims.req[p].pc = "idle"
    /\ IF claims.row.status # "RESOLVED" THEN ClaimThrows(p, "Market not resolved")
       ELSE IF claims.row.resolution_value = "none"
            THEN ClaimThrows(p, "Market resolution value missing")
       ELSE ClaimStep(p, [claims.req[p] EXCEPT
                !.pc = "getPosition",
                !.outcome = IF claims.row.resolution_value = "YES" THEN "YES" ELSE "NO"])

\* 2. await db.getPosition and the checks on the shares
ClaimWinningsDB_GetPosition(p) ==
    /\ claims.req[p].pc = "getPosition"
    /\ LET shares == claims.position[claims.req[p].outcome]
       IN IF shares = NoPos THEN ClaimThrows(p, "No position found")
          ELSE IF shares <= 0 THEN ClaimThrows(p, "No winnings to claim")
          ELSE ClaimStep(p, [claims.req[p] EXCEPT !.pc = "upsertPosition", !.shares = shares])

\* 4. await db.upsertPosition(..., 0n, ...)
ClaimWinningsDB_UpsertPosition(p) ==
    /\ claims.req[p].pc = "upsertPosition"
    /\ claims' = [claims EXCEPT !.position[claims.req[p].outcome] = 0,
                                !.req[p].pc = "getSession"]
    /\ UNCHANGED outsideClaims

\* 5. await db.getSessionByUser
ClaimWinningsDB_GetSession(p) ==
    /\ claims.req[p].pc = "getSession"
    /\ IF ~claims.session.present
       THEN ClaimThrows(p, "No active session found to credit winnings")
       ELSE ClaimStep(p, [claims.req[p] EXCEPT !.pc = "updateSessionBalance",
                                               !.balance = claims.session.current_balance,
                                               !.nonce = claims.session.nonce])

\* await db.updateSessionBalance(newBalance, newNonce) and the return
ClaimWinningsDB_UpdateSessionBalance(p) ==
    /\ claims.req[p].pc = "updateSessionBalance"
    /\ claims' = [claims EXCEPT
                     !.session.current_balance = claims.req[p].balance + claims.req[p].shares,
                     !.session.nonce = claims.req[p].nonce + 1,
                     !.req[p].pc = "done",
                     !.req[p].res = "ok"]
    /\ UNCHANGED outsideClaims

\* the response is sent
ClaimWinningsDB_Return(p) ==
    /\ claims.req[p].pc = "done"
    /\ ClaimStep(p, NoClaim)

NextClaims ==
    \E p \in Procs :
        \/ ClaimWinningsDB_GetMarket(p)
        \/ ClaimWinningsDB_GetPosition(p)
        \/ ClaimWinningsDB_UpsertPosition(p)
        \/ ClaimWinningsDB_GetSession(p)
        \/ ClaimWinningsDB_UpdateSessionBalance(p)
        \/ ClaimWinningsDB_Return(p)

SpecClaims == InitClaims /\ [][NextClaims]_vars

\* shares of a position row, none when the row is missing
SharesOf(x) == IF x = NoPos THEN 0 ELSE x

\* C28: winnings are credited on a RESOLVED market only, and whenever no
\* claim is under way, what was credited to the session plus the winning
\* shares still held is what was held of the winning outcome when the
\* claims began: nothing is paid twice, and a claim that fails takes nothing
\* from the position.
C28_WinningsConserved ==
    (\A p \in Procs : claims.req[p].pc \in {"idle", "done"}) =>
        IF claims.row.status = "RESOLVED" /\ claims.row.resolution_value # "none"
        THEN claims.session.current_balance + SharesOf(claims.position[claims.row.resolution_value])
                = SharesOf(claims.atStart[claims.row.resolution_value])
        ELSE claims.session.current_balance = 0 /\ claims.position = claims.atStart

(***************************************************************************)
(* Position accounting over the completed calls of a run.                  *)
(***************************************************************************)
\* what the answered call in slot p adds to the position `key`: the shares a
\* successful bet returned, minus the shares of a successful sell
TradedShares(p, key) ==
    IF pc[p] = "done" /\ loc[p].res = "ok" /\ <<loc[p].m, loc[p].u, loc[p].out>> = key
    THEN IF loc[p].op \in BetOps THEN loc[p].shares
         ELSE IF loc[p].op \in SellOps THEN 0 - loc[p].amt
         ELSE 0
    ELSE 0

RECURSIVE NetShares(_, _)
NetShares(S, key) ==
    IF S = {} THEN 0
    ELSE LET p == CHOOSE q \in S : TRUE
         IN TradedShares(p, key) + NetShares(S \ {p}, key)

\* every call accepted so far has completed and its response is at hand
AllCompleted ==
    /\ \A p \in Procs : pc[p] \in {"idle", "done"}
    /\ Cardinality({p \in Procs : pc[p] = "done"}) = nreq

\* C29: position accounting: once the calls of a run have completed, the
\* stored shares of every (market, user, outcome) are the shares returned by
\* the user's successful bets minus the shares of the user's successful
\* sells, and the stored shares are never negative.
C29_PositionAccounting ==
    \A key \in PosKeys :
        /\ positions[key] # NoPos => positions[key] >= 0
        /\ AllCompleted => SharesOf(positions[key]) = NetShares(Procs, key)

====
